---- MODULE Spec2Model ----
(***************************************************************************)
(* A model of tee_times.py: the time / player-count helpers, the Quick18   *)
(* matrix extractor, the MiClub interactive extractor, and main's          *)
(* aggregation and report.                                                 *)
(*                                                                         *)
(* Text is kept as text.  A Python str is a sequence of characters, each a *)
(* one-character string; S("7:00 AM") writes one.  Parsing, formatting,    *)
(* pattern search and string ordering are computed on the characters, the  *)
(* way the code computes them.  An Optional value is a sequence of length  *)
(* at most one: <<>> is None.                                              *)
(***************************************************************************)
EXTENDS Integers, Sequences, FiniteSets, TLC

VARIABLES
    pc,              \* position of the running specification's control
    min_players,     \* query: minimum party size
    latest_time_str, \* query: LATEST_TIME as given
    latest,          \* query: latest time, a datetime.time [hour, minute]
    hhmm,            \* normalizer: the time text last compared
    clock,           \* normalizer: the [hour, minute] that text was written from
    players_hint,    \* normalizer: the hint last checked (Optional[str])
    ret,             \* normalizer: the value the last call returned
    doc,             \* matrix: the page's tables, as page.content() gave them
    tbl,             \* matrix: index of target_table in doc
    col_18,          \* matrix: 0-based index of the 18-hole column
    tr_i,            \* matrix: index of the row the loop is at
    site,            \* interactive: the MiClub site as this run sees it
    clicked,         \* interactive: a click opened the timesheet
    final_url,       \* interactive: page.url after the click
    tw_i,            \* interactive: index of the .time-wrapper the loop is at
    found,           \* interactive: the times appended so far
    results,         \* extractor: the records appended so far
    from_row,        \* extractor: for each appended record or time, its row
    returned,        \* extractor: the list the extractor returned
    src_i,           \* main: index of the source the loop is at
    all_results,     \* main: the records and placeholders gathered so far
    outcomes,        \* main: for each source invoked, what its call did
    merged,          \* main: the list handed to render_markdown
    md               \* main: the report, as its lines

queryVars == <<min_players, latest_time_str, latest>>
normVars == <<hhmm, clock, players_hint, ret>>
matrixVars == <<doc, tbl, col_18, tr_i>>
miclubVars == <<site, clicked, final_url, tw_i, found>>
extractVars == <<results, from_row, returned>>
mainVars == <<src_i, all_results, outcomes, merged, md>>
vars == <<pc, queryVars, normVars, matrixVars, miclubVars, extractVars, mainVars>>

----------------------------------------------------------------------------
(* Characters and strings                                                  *)

DigitChars == "0123456789"
LowerChars == "abcdefghijklmnopqrstuvwxyz"
UpperChars == "ABCDEFGHIJKLMNOPQRSTUVWXYZ"
\* Python orders str by code point: the printable ASCII characters in order
\* (the double quote, the backslash and the backquote, which no modelled
\* text holds, left out)
AsciiChars ==
    " !#$%&'()*+,-./0123456789:;<=>?@ABCDEFGHIJKLMNOPQRSTUVWXYZ[]^_abcdefghijklmnopqrstuvwxyz{|}~"

\* the sequence with the elements of f, built once
SeqOf(f) == f \o <<>>

\* the str written lit
S(lit) == SeqOf([i \in 1..Len(lit) |-> SubSeq(lit, i, i)])

CharsOf(lit) == {SubSeq(lit, i, i) : i \in 1..Len(lit)}
IndexIn(c, lit) == CHOOSE i \in 1..Len(lit) : SubSeq(lit, i, i) = c

DigitSet == CharsOf(DigitChars)
UpperSet == CharsOf(UpperChars)
\* \w of the re module, on the ASCII text the pages are modelled with
WordSet == DigitSet \cup UpperSet \cup CharsOf(LowerChars) \cup {"_"}
DigitValOf == [c \in DigitSet |-> IndexIn(c, DigitChars) - 1]
LowerOf ==
    [c \in UpperSet |-> SubSeq(LowerChars, IndexIn(c, UpperChars), IndexIn(c, UpperChars))]
AsciiRank == [c \in CharsOf(AsciiChars) |-> IndexIn(c, AsciiChars)]

\* the character of s at position i, "" outside s
Ch(s, i) == IF i >= 1 /\ i <= Len(s) THEN s[i] ELSE ""

IsDigit(c) == c \in DigitSet
DigitVal(c) == DigitValOf[c]
IsSpace(c) == c = " "
IsWordChar(c) == c \in WordSet
DigitCh(d) == SubSeq(DigitChars, d + 1, d + 1)

\* str.lower()
Lower(s) == SeqOf([i \in 1..Len(s) |-> IF s[i] \in UpperSet THEN LowerOf[s[i]] ELSE s[i]])

\* sub occurs in s starting at position i
MatchAt(s, i, sub) ==
    /\ i >= 1
    /\ i + Len(sub) - 1 <= Len(s)
    /\ \A k \in 1..Len(sub) : s[i + k - 1] = sub[k]

\* Python's  sub in s
Contains(s, sub) == \E i \in 1..(Len(s) + 1) : MatchAt(s, i, sub)

StartsWith(s, pre) == MatchAt(s, 1, pre)

\* int() of a run of decimal digits
RECURSIVE IntOf(_)
IntOf(s) ==
    IF s = <<>> THEN 0
    ELSE IntOf(SubSeq(s, 1, Len(s) - 1)) * 10 + DigitVal(s[Len(s)])

\* str(n) of a natural number n
RECURSIVE IntToStr(_)
IntToStr(n) ==
    IF n < 10 THEN <<DigitCh(n)>>
    ELSE IntToStr(n \div 10) \o <<DigitCh(n % 10)>>

\* one past the end of the maximal digit run that starts at i (i itself if none)
DigitsEnd(s, i) ==
    CHOOSE e \in i..(Len(s) + 1) :
        (\A k \in i..(e - 1) : IsDigit(s[k])) /\ ~IsDigit(Ch(s, e))

\* one past the end of the whitespace run that starts at i: a greedy \s*
SpacesEnd(s, i) ==
    IF i > Len(s) THEN i
    ELSE CHOOSE e \in i..(Len(s) + 1) :
             (\A k \in i..(e - 1) : IsSpace(s[k])) /\ ~IsSpace(Ch(s, e))

\* the integer written by the digit run of s that starts at i
NumAt(s, i) == IntOf(SubSeq(s, i, DigitsEnd(s, i) - 1))

\* re's \b at the gap before position i
WordBoundary(s, i) == IsWordChar(Ch(s, i - 1)) # IsWordChar(Ch(s, i))

Min(ps) == CHOOSE p \in ps : \A q \in ps : p <= q

\* the members of a set of integers in ascending order
Ascending(ps) ==
    SeqOf([k \in 1..Cardinality(ps) |->
        CHOOSE p \in ps : Cardinality({q \in ps : q < p}) = k - 1])

\* re.findall(r"\d+", s) as integers: one per maximal digit run
NumsAt(s, starts) == SeqOf([k \in 1..Len(starts) |-> NumAt(s, starts[k])])
FindallNums(s) ==
    NumsAt(s, Ascending({i \in 1..Len(s) : IsDigit(s[i]) /\ ~IsDigit(Ch(s, i - 1))}))

RECURSIVE MaxOf(_)
MaxOf(nums) ==
    IF Len(nums) = 1 THEN nums[1]
    ELSE LET m == MaxOf(Tail(nums)) IN IF nums[1] >= m THEN nums[1] ELSE m

RECURSIVE Flatten(_)
Flatten(ss) == IF ss = <<>> THEN <<>> ELSE Head(ss) \o Flatten(Tail(ss))

\* " ".join of the stripped, non-empty strings: get_text(" ", strip=True)
RECURSIVE JoinText(_)
JoinText(pieces) ==
    IF pieces = <<>> THEN <<>>
    ELSE LET rest == JoinText(Tail(pieces))
         IN  IF Head(pieces) = <<>> THEN rest
             ELSE IF rest = <<>> THEN Head(pieces)
             ELSE Head(pieces) \o <<" ">> \o rest

\* a < b for str: the first character that differs decides, a prefix is less
RECURSIVE StrLess(_, _)
StrLess(a, b) ==
    IF b = <<>> THEN FALSE
    ELSE IF a = <<>> THEN TRUE
    ELSE IF a[1] = b[1] THEN StrLess(Tail(a), Tail(b))
    ELSE AsciiRank[a[1]] < AsciiRank[b[1]]

\* Python's order on tuples of str: the first component that differs decides
RECURSIVE KeyLess(_, _)
KeyLess(a, b) ==
    IF a = <<>> \/ b = <<>> THEN FALSE
    ELSE IF Head(a) = Head(b) THEN KeyLess(Tail(a), Tail(b))
    ELSE StrLess(Head(a), Head(b))

\* sorted() is stable: x goes after the entries whose key is not greater
RECURSIVE InsertSorted(_, _)
InsertSorted(x, seq) ==
    IF seq = <<>> THEN <<x>>
    ELSE IF KeyLess(x.key, Head(seq).key) THEN <<x>> \o seq
    ELSE <<Head(seq)>> \o InsertSorted(x, Tail(seq))

\* entries [key, val] in ascending key order
RECURSIVE SortedEntries(_)
SortedEntries(seq) ==
    IF seq = <<>> THEN <<>>
    ELSE InsertSorted(seq[Len(seq)], SortedEntries(SubSeq(seq, 1, Len(seq) - 1)))

ValuesOf(es) == SeqOf([k \in 1..Len(es) |-> es[k].val])

\* the first index of the Boolean sequence hits that is TRUE, 0 when none is
FirstTrue(hits) ==
    IF \E k \in 1..Len(hits) : hits[k]
    THEN Min({k \in 1..Len(hits) : hits[k]})
    ELSE 0

None == <<>>
Some(s) == <<s>>

----------------------------------------------------------------------------
(* Time / player-count helpers                                             *)

\* s.strip().split(":") on a text the time patterns matched: H:MM or HH:MM
ColonAt(s) == CHOOSE i \in 1..Len(s) : s[i] = ":"

parse_hhmm_24(s) ==
    [hour   |-> IntOf(SubSeq(s, 1, ColonAt(s) - 1)),
     minute |-> IntOf(SubSeq(s, ColonAt(s) + 1, Len(s)))]

is_before_or_equal_HourOnly(t, latest_) ==
    parse_hhmm_24(t).hour <= latest_.hour

\* (t.hour, t.minute) <= (latest.hour, latest.minute): Python's tuple order
is_before_or_equal(t, latest_) ==
    \/ parse_hhmm_24(t).hour < latest_.hour
    \/ /\ parse_hhmm_24(t).hour = latest_.hour
       /\ parse_hhmm_24(t).minute <= latest_.minute

\* dt.strftime("%H:%M")
TwoDigits(n) == <<DigitCh(n \div 10), DigitCh(n % 10)>>
strftime_HM(h, m) == TwoDigits(h) \o <<":">> \o TwoDigits(m)

\* time_re = \b(\d{1,2}:\d{2}\s*(AM|PM))\b, IGNORECASE, tried at position i:
\* one past the end of the match, 0 when there is none.  hl is the length
\* of the hour: the colon's place leaves one choice of it.
AmPmEnd(s, j) ==
    IF /\ j + 1 <= Len(s)
       /\ Lower(SubSeq(s, j, j + 1)) \in {S("am"), S("pm")}
       /\ WordBoundary(s, j + 2)
    THEN j + 2
    ELSE 0

TimeAmPmEndWith(s, i, hl) ==
    IF /\ WordBoundary(s, i)
       /\ \A k \in i..(i + hl - 1) : IsDigit(Ch(s, k))
       /\ Ch(s, i + hl) = ":"
       /\ IsDigit(Ch(s, i + hl + 1)) /\ IsDigit(Ch(s, i + hl + 2))
    THEN AmPmEnd(s, SpacesEnd(s, i + hl + 3))
    ELSE 0

\* the first alternative that matches
OrElse(e1, e2) == IF e1 > 0 THEN e1 ELSE e2

TimeAmPmEnd(s, i) ==
    IF ~IsDigit(Ch(s, i)) THEN 0
    ELSE OrElse(TimeAmPmEndWith(s, i, 2), TimeAmPmEndWith(s, i, 1))

\* the leftmost match of a pattern whose end at each position is ends[i]:
\* <<>> or <<[from, to]>>
MatchFrom(ends, i) == IF i = 0 THEN <<>> ELSE <<[from |-> i, to |-> ends[i] - 1]>>
Leftmost(ends) == MatchFrom(ends, FirstTrue(SeqOf([i \in 1..Len(ends) |-> ends[i] > 0])))

Group0(s, m) == IF m = <<>> THEN None ELSE Some(SubSeq(s, m[1].from, m[1].to))

\* time_re.search(s): m.group(1) as Optional[str]
time_re_search(s) == Group0(s, Leftmost(SeqOf([i \in 1..Len(s) |-> TimeAmPmEnd(s, i)])))

\* dtparser.parse of a text time_re matched, then strftime("%H:%M"); None
\* when dateutil raises: an hour above 12 beside AM/PM, a minute above 59.
To24h(h, m, pm) ==
    IF h > 12 \/ m > 59 THEN None
    ELSE Some(strftime_HM(IF pm /\ h < 12 THEN h + 12
                          ELSE IF ~pm /\ h = 12 THEN 0
                          ELSE h, m))

ampm_to_24h(t) ==
    To24h(IntOf(SubSeq(t, 1, ColonAt(t) - 1)),
          IntOf(SubSeq(t, ColonAt(t) + 1, ColonAt(t) + 2)),
          Lower(SubSeq(t, Len(t) - 1, Len(t))) = S("pm"))

PlayersOk(s, nums, n) ==
    IF nums = <<>> THEN TRUE
    ELSE IF Contains(s, S("to")) /\ Len(nums) >= 2 THEN nums[2] >= n
    ELSE IF Contains(s, S("or")) /\ Len(nums) >= 2 THEN MaxOf(nums) >= n
    ELSE MaxOf(nums) >= n

looks_like_players_ok(hint, n) ==
    IF hint = None \/ hint = Some(<<>>) THEN TRUE
    ELSE PlayersOk(Lower(hint[1]), FindallNums(Lower(hint[1])), n)

----------------------------------------------------------------------------
(* Documents.  A page is a sequence of tables, a table a sequence of rows  *)
(* (tr), a row a sequence of cells (td / th).  A cell has its colspan      *)
(* attribute as written (empty when absent), its own text and its links;  *)
(* a link has its text, its href (empty when absent) and dest, what        *)
(* loading that href returns during this run.                              *)

TeeTime(course_, date_, time_, hint_, url_) ==
    [course |-> course_, play_date |-> date_, tee_time |-> time_,
     players_hint |-> hint_, booking_url |-> url_]

CellPieces(c) == <<c.text>> \o SeqOf([k \in 1..Len(c.links) |-> c.links[k].text])
CellText(c) == JoinText(CellPieces(c))
RowText(tr) == JoinText(Flatten(SeqOf([k \in 1..Len(tr) |-> CellPieces(tr[k])])))
TableText(t) == JoinText(SeqOf([k \in 1..Len(t) |-> RowText(t[k])]))

IsInt(a) == a # <<>> /\ \A k \in 1..Len(a) : IsDigit(a[k])

\* int(c.get("colspan", 1)), 1 when int() raises; then max(colspan, 1)
AtLeastOne(colspan) == IF colspan >= 1 THEN colspan ELSE 1
ColspanOf(c) == AtLeastOne(IF IsInt(c.colspan) THEN IntOf(c.colspan) ELSE 1)

RECURSIVE Repeat(_, _)
Repeat(x, n) == IF n = 0 THEN <<>> ELSE <<x>> \o Repeat(x, n - 1)

RECURSIVE expand_cells(_)
expand_cells(cells) ==
    IF cells = <<>> THEN <<>>
    ELSE Repeat(Head(cells), ColspanOf(Head(cells))) \o expand_cells(Tail(cells))

\* the first index of seq that satisfies Test, 0 when none does
FirstIndex(seq, Test(_)) == FirstTrue(SeqOf([k \in 1..Len(seq) |-> Test(seq[k])]))

----------------------------------------------------------------------------
(* scrape_quick18_hamersley                                                *)

HamersleyCourse == S("Hamersley Public Golf Course")
base_url == S("https://hamersley.quick18.com")
HeaderScanRows == 8
SaneMaxPlayers == 6

Has18And9AndSelect(t_text) ==
    /\ Contains(t_text, S("18 holes"))
    /\ Contains(t_text, S("9 holes"))
    /\ Contains(t_text, S("select"))
IsTargetTable(t) == Has18And9AndSelect(Lower(TableText(t)))

\* index of the table the extractor reads, 0 when no table qualifies
target_table(html) == FirstIndex(html, IsTargetTable)

Has18Hole(txt) ==
    Contains(txt, S("18 holes")) \/ (Contains(txt, S("18")) /\ Contains(txt, S("hole")))
IsHeaderRow(tr) == Has18Hole(Lower(RowText(tr)))

\* index of the header row among the first 8 rows, 0 when there is none
FirstRows(t) == SubSeq(t, 1, IF Len(t) < HeaderScanRows THEN Len(t) ELSE HeaderScanRows)
header_row(t) == FirstIndex(FirstRows(t), IsHeaderRow)

Is18Holes(c) == Contains(Lower(CellText(c)), S("18 holes"))
Is18Hole(c) == Has18Hole(Lower(CellText(c)))

\* the 0-based index of the 18-hole column, -1 for None: the first header
\* with "18 holes", and only when there is none the first with "18" and "hole"
Col18From(header_cells, exact) ==
    IF exact > 0 THEN exact - 1 ELSE FirstIndex(header_cells, Is18Hole) - 1
Col18In(header_cells) == Col18From(header_cells, FirstIndex(header_cells, Is18Holes))
col_18_of(tr) == Col18In(expand_cells(tr))

\* lines 112-147: [tbl, col_18], col_18 = -1 when the extractor returns early
Located(html, t, h) ==
    [tbl |-> t, col_18 |-> IF h = 0 THEN -1 ELSE col_18_of(html[t][h])]
LocateIn(html, t) ==
    IF t = 0 THEN [tbl |-> 0, col_18 |-> -1] ELSE Located(html, t, header_row(html[t]))
locate_col_18(html) == LocateIn(html, target_table(html))

IsSelectLink(a) == Contains(Lower(a.text), S("select"))

\* cell_18.find("a", string=re.compile(r"select", re.IGNORECASE))
LinkAt(links, k) == IF k > 0 THEN <<links[k]>> ELSE <<>>
select_link(cell) == LinkAt(cell.links, FirstIndex(cell.links, IsSelectLink))

\* literals ws, \s* between them, from position i: one past the end, or 0
RECURSIVE WordsEnd(_, _, _)
WordsEnd(s, i, ws) ==
    IF ~MatchAt(s, i, Head(ws)) THEN 0
    ELSE IF Len(ws) = 1 THEN i + Len(Head(ws))
    ELSE WordsEnd(s, SpacesEnd(s, i + Len(Head(ws))), Tail(ws))

\* re.search of \b w1 \s* w2 ... \b
EndsAtBoundary(s, e) == e > 0 /\ WordBoundary(s, e)
PhraseIn(s, ws) ==
    \E i \in 1..Len(s) : WordBoundary(s, i) /\ EndsAtBoundary(s, WordsEnd(s, i, ws))

only_one_patterns ==
    {<<S("only"), S("1"), S("player")>>, <<S("1"), S("player"), S("only")>>,
     <<S("only"), S("one"), S("player")>>, <<S("for"), S("1"), S("player")>>,
     <<S("single"), S("player")>>}

\* players?\b at position p: one past the end, or 0
PlayersEnd(s, p) ==
    IF MatchAt(s, p, S("players")) /\ WordBoundary(s, p + 7) THEN p + 7
    ELSE IF MatchAt(s, p, S("player")) /\ WordBoundary(s, p + 6) THEN p + 6
    ELSE 0

\* re.search(r"\b(\d+)\b", txt) as a sequence of at most one integer
StandaloneNumAt(s, i) ==
    WordBoundary(s, i) /\ IsDigit(Ch(s, i)) /\ WordBoundary(s, DigitsEnd(s, i))
NumAtOrNone(s, i) == IF i = 0 THEN <<>> ELSE <<NumAt(s, i)>>
first_number(s) ==
    NumAtOrNone(s, FirstTrue(SeqOf([p \in 1..Len(s) |-> StandaloneNumAt(s, p)])))

\* m_range = \b(\d+)\s*(?:to|-)\s*(\d+)\s*players?\b.  j is where the
\* connective starts; its length, 0 when neither "to" nor "-" is there
ConnectiveLen(s, j) ==
    IF MatchAt(s, j, S("to")) THEN 2 ELSE IF MatchAt(s, j, S("-")) THEN 1 ELSE 0
\* where group(2) starts
SecondNumAt(s, j) == SpacesEnd(s, j + ConnectiveLen(s, j))
RangeEndFrom(s, j) ==
    IF ConnectiveLen(s, j) > 0 /\ IsDigit(Ch(s, SecondNumAt(s, j)))
    THEN PlayersEnd(s, SpacesEnd(s, DigitsEnd(s, SecondNumAt(s, j))))
    ELSE 0
\* the pattern tried at i: one past the end, or 0
RangeEnd(s, i) ==
    IF WordBoundary(s, i) /\ IsDigit(Ch(s, i))
    THEN RangeEndFrom(s, SpacesEnd(s, DigitsEnd(s, i)))
    ELSE 0

\* <<>> or <<[hi, text]>> with int(group(2)) and group(0)
RangeMatch(s, m) ==
    IF m = <<>> THEN <<>>
    ELSE <<[hi   |-> NumAt(s, SecondNumAt(s, SpacesEnd(s, DigitsEnd(s, m[1].from)))),
            text |-> SubSeq(s, m[1].from, m[1].to)]>>
range_search(s) == RangeMatch(s, Leftmost(SeqOf([p \in 1..Len(s) |-> RangeEnd(s, p)])))

\* m_upto = \bup to\s*(\d+)\s*players?\b tried at i: one past the end, or 0
UpToEnd(s, i) ==
    IF WordBoundary(s, i) /\ MatchAt(s, i, S("up to")) /\ IsDigit(Ch(s, SpacesEnd(s, i + 5)))
    THEN PlayersEnd(s, SpacesEnd(s, DigitsEnd(s, SpacesEnd(s, i + 5))))
    ELSE 0

\* <<>> or <<[hi, text]>> with int(group(1)) and group(0)
UpToMatch(s, m) ==
    IF m = <<>> THEN <<>>
    ELSE <<[hi   |-> NumAt(s, SpacesEnd(s, m[1].from + 5)),
            text |-> SubSeq(s, m[1].from, m[1].to)]>>
upto_search(s) == UpToMatch(s, Leftmost(SeqOf([p \in 1..Len(s) |-> UpToEnd(s, p)])))

\* A slot page: [loads, text, selects]; a select: [id, name, class, options].
\* slot_soup.get_text(" ", strip=True).lower(): the options' text is page text
OptionsOf(selects) == Flatten(SeqOf([k \in 1..Len(selects) |-> selects[k].options]))
page_text_of(slot) == Lower(JoinText(<<slot.text>> \o OptionsOf(slot.selects)))

\* " ".join(parts)
RECURSIVE SpaceJoin(_)
SpaceJoin(parts) ==
    IF parts = <<>> THEN <<>>
    ELSE IF Len(parts) = 1 THEN parts[1]
    ELSE parts[1] \o <<" ">> \o SpaceJoin(Tail(parts))

MaxOrNone(nums) == IF nums = <<>> THEN <<>> ELSE <<MaxOf(nums)>>

\* one select of the dropdown scan: <<mx>> when it counts, <<>> when skipped
SelectMax(attr_blob, options_blob, nums) ==
    IF ~Contains(attr_blob, S("player")) /\ ~Contains(options_blob, S("player"))
    THEN <<>>
    ELSE MaxOrNone(nums)
OptionTexts(sel) == SeqOf([k \in 1..Len(sel.options) |-> Lower(sel.options[k])])
OptionNums(option_texts) ==
    Flatten(SeqOf([k \in 1..Len(option_texts) |-> first_number(option_texts[k])]))
select_max(sel) ==
    SelectMax(Lower(SpaceJoin(<<sel.id, sel.name, sel.class>>)),
              SpaceJoin(OptionTexts(sel)), OptionNums(OptionTexts(sel)))

\* best_max: <<>> for None
best_max_of(selects) ==
    MaxOrNone(Flatten(SeqOf([k \in 1..Len(selects) |-> select_max(selects[k])])))

\* lines 205-269 on what the slot page holds: [slot_supports_min, slot_players_hint]
SlotVerdict(only_one, best_max, m_range, m_upto, hint, n) ==
    [slot_supports_min |->
        ~ \/ only_one
          \/ best_max # <<>> /\ best_max[1] < n
          \/ m_range # <<>> /\ m_range[1].hi < n
          \/ m_upto # <<>> /\ m_upto[1].hi < n,
     slot_players_hint |->
        IF m_upto # <<>> THEN Some(m_upto[1].text)
        ELSE IF m_range # <<>> THEN Some(m_range[1].text)
        ELSE IF best_max # <<>> /\ best_max[1] <= SaneMaxPlayers
             THEN Some(S("up to ") \o IntToStr(best_max[1]) \o S(" players"))
        ELSE hint]

only_one_player(page_text, n) ==
    n >= 2 /\ \E pat \in only_one_patterns : PhraseIn(page_text, pat)

SlotFindings(page_text, selects, hint, n) ==
    SlotVerdict(only_one_player(page_text, n), best_max_of(selects),
                range_search(page_text), upto_search(page_text), hint, n)

\* a failed load rejects the row
validate_slot_Pessimistic(slot, hint, n) ==
    IF ~slot.loads THEN [slot_supports_min |-> FALSE, slot_players_hint |-> hint]
    ELSE SlotFindings(page_text_of(slot), slot.selects, hint, n)

\* The try block of one row (lines 186-273).  A load that fails raises
\* before either variable is assigned again; the handler then sets
\* slot_supports_min = True.
validate_slot(slot, hint, n) ==
    IF ~slot.loads THEN [slot_supports_min |-> TRUE, slot_players_hint |-> hint]
    ELSE SlotFindings(page_text_of(slot), slot.selects, hint, n)

\* the hint a record is given (lines 278-283)
LooksLikePlayerHint(low) == Contains(low, S("player")) /\ ~Contains(low, S("up to 20"))
final_hint(slot_players_hint) ==
    IF /\ slot_players_hint # None
       /\ slot_players_hint # Some(<<>>)
       /\ LooksLikePlayerHint(Lower(slot_players_hint[1]))
    THEN slot_players_hint
    ELSE None

\* line 177
booking_url_of(href) == IF StartsWith(href, S("http")) THEN href ELSE base_url \o href

\* lines 275-293
RowRecord(t24, href, v, play_date_) ==
    IF ~v.slot_supports_min THEN <<>>
    ELSE <<TeeTime(HamersleyCourse, play_date_, t24, final_hint(v.slot_players_hint),
                   booking_url_of(href))>>

\* lines 157-161: Optional 24-hour text of the row's first time
Time24Of(m) == IF m = None THEN None ELSE ampm_to_24h(m[1])
row_hhmm(tr_text) == Time24Of(time_re_search(tr_text))

\* the first Select link of any cell of the row
row_select_link_AnyColumn(row_cells, col_18_) ==
    LinkAt(Flatten(SeqOf([k \in 1..Len(row_cells) |-> row_cells[k].links])),
           FirstIndex(Flatten(SeqOf([k \in 1..Len(row_cells) |-> row_cells[k].links])),
                      IsSelectLink))

\* lines 165-172: the Select link of the 18-hole cell, <<>> when the row has
\* no such cell or the cell no such link
row_select_link(row_cells, col_18_) ==
    IF col_18_ >= Len(row_cells) THEN <<>> ELSE select_link(row_cells[col_18_ + 1])

RowWith(tr_text, t24, link, play_date_, n, latest_) ==
    IF ~Contains(Lower(tr_text), S("select")) THEN <<>>
    ELSE IF t24 = None THEN <<>>
    ELSE IF ~is_before_or_equal(t24[1], latest_) THEN <<>>
    ELSE IF link = <<>> THEN <<>>
    ELSE IF link[1].href = <<>> THEN <<>>
    ELSE RowRecord(t24[1], link[1].href,
                   validate_slot(link[1].dest, Some(tr_text), n), play_date_)

\* One pass of the row loop (lines 152-293): the records it appends, <<>>
\* when the row is skipped.
matrix_row(tr, col_18_, play_date_, n, latest_) ==
    RowWith(RowText(tr), row_hhmm(RowText(tr)),
            row_select_link(expand_cells(tr), col_18_), play_date_, n, latest_)

\* sorted(rs, key=lambda x: x.tee_time)
sorted_by_time(rs) ==
    ValuesOf(SortedEntries(SeqOf([k \in 1..Len(rs) |->
                                    [key |-> <<rs[k].tee_time>>, val |-> rs[k]]])))

SameKey(a, b) ==
    a.course = b.course /\ a.play_date = b.play_date /\ a.tee_time = b.tee_time

\* uniq[(course, play_date, tee_time)] = r over rs, then uniq.values(): a key
\* keeps the place of its first record and the value of its last
PutLast(init, last) ==
    IF \E k \in 1..Len(init) : SameKey(init[k], last)
    THEN SeqOf([k \in 1..Len(init) |-> IF SameKey(init[k], last) THEN last ELSE init[k]])
    ELSE Append(init, last)
RECURSIVE uniq_values(_)
uniq_values(rs) ==
    IF rs = <<>> THEN <<>>
    ELSE PutLast(uniq_values(SubSeq(rs, 1, Len(rs) - 1)), rs[Len(rs)])

\* lines 295-299
dedupe_by_time(rs) == sorted_by_time(uniq_values(rs))

----------------------------------------------------------------------------
(* scrape_miclub_public_calendar.  The site as one run sees it: whether    *)
(* goto succeeds, what a click on a price-like text and on the first table *)
(* link does, the url after the click, and the .time-wrapper rows.  A row  *)
(* has the label's text (None when inner_text raises), whether its         *)
(* container still answers (a detached container raises), the container's  *)
(* text and class, and its visible actions.  The site also says whether it *)
(* has a link outside every table (elsewhere), which the code never looks  *)
(* for.                                                                    *)

RowCap == 400
ActionCap == 50

Max(ps) == CHOOSE p \in ps : \A q \in ps : p >= q
AtMost(n, cap) == IF n < cap THEN n ELSE cap

\* str.strip()
Inked(s) == {k \in 1..Len(s) : ~IsSpace(s[k])}
Strip(s) == IF Inked(s) = {} THEN <<>> ELSE SubSeq(s, Min(Inked(s)), Max(Inked(s)))

\* [0-5]\d\b after the colon at j: one past the end, or 0
MinutesEnd(s, j) ==
    IF /\ Ch(s, j) = ":"
       /\ Ch(s, j + 1) \in {"0", "1", "2", "3", "4", "5"}
       /\ IsDigit(Ch(s, j + 2))
       /\ WordBoundary(s, j + 3)
    THEN j + 3
    ELSE 0

\* time_re_24h = \b([01]?\d|2[0-3]):[0-5]\d\b tried at i: the hour as [01]\d,
\* then as \d alone, then as 2[0-3]
Time24hEnd(s, i) ==
    IF ~(WordBoundary(s, i) /\ IsDigit(Ch(s, i))) THEN 0
    ELSE OrElse(IF Ch(s, i) \in {"0", "1"} /\ IsDigit(Ch(s, i + 1))
                THEN MinutesEnd(s, i + 2) ELSE 0,
                OrElse(MinutesEnd(s, i + 1),
                       IF Ch(s, i) = "2" /\ Ch(s, i + 1) \in {"0", "1", "2", "3"}
                       THEN MinutesEnd(s, i + 2) ELSE 0))

\* time_re_24h.search(s): m2.group(0) as Optional[str]
time_re_24h_search(s) ==
    Group0(s, Leftmost(SeqOf([i \in 1..Len(s) |-> Time24hEnd(s, i)])))

\* lines 451-456: the label's time as the code keeps it
HhmmFrom(tw_text, m) ==
    IF m # None THEN ampm_to_24h(m[1]) ELSE time_re_24h_search(tw_text)
label_hhmm(tw_text) == HhmmFrom(tw_text, time_re_search(tw_text))

\* bad_class_re: any of the words anywhere in the text, IGNORECASE
bad_class_words ==
    {S("disabled"), S("unavailable"), S("booked"), S("closed"), S("soldout"),
     S("full"), S("na")}
HasBadClassWord(low) == \E w \in bad_class_words : Contains(low, w)
bad_class_re_search(cls) == HasBadClassWord(Lower(cls))

\* bad_text_re = \b(booked|closed|unavailable|sold\s*out|full|n/?a)\b, IGNORECASE
bad_text_patterns ==
    {<<S("booked")>>, <<S("closed")>>, <<S("unavailable")>>, <<S("sold"), S("out")>>,
     <<S("full")>>, <<S("n/a")>>, <<S("na")>>}
HasBadTextWord(low) == \E pat \in bad_text_patterns : PhraseIn(low, pat)
bad_text_re_search(txt) == HasBadTextWord(Lower(txt))

\* re.search(r"\b(book|select|reserve)\b", a_text)
book_words == {<<S("book")>>, <<S("select")>>, <<S("reserve")>>}
HasBookWord(a_text) == \E pat \in book_words : PhraseIn(a_text, pat)

\* lines 487-508 for one action: it makes the row bookable
is_bookable_action(a) ==
    /\ ~bad_class_re_search(a.class)
    /\ Lower(a.aria_disabled) # S("true")
    /\ ~a.disabled
    /\ \/ Strip(a.href) # <<>>
       \/ Strip(a.onclick) # <<>>
       \/ HasBookWord(Lower(Strip(a.text)))

has_bookable_action(actions) ==
    \E j \in 1..AtMost(Len(actions), ActionCap) : is_bookable_action(actions[j])

Skipped == [raised |-> FALSE, found |-> <<>>]

\* lines 461-513 for a label whose time passed the filter
RowFound(row, t) ==
    IF ~row.attached THEN [raised |-> TRUE, found |-> <<>>]
    ELSE IF bad_class_re_search(row.class) \/ bad_text_re_search(Strip(row.text))
         THEN Skipped
    ELSE IF ~has_bookable_action(row.actions) THEN Skipped
    ELSE [raised |-> FALSE, found |-> <<t>>]

RowTimed(row, t, latest_) ==
    IF t = None THEN Skipped
    ELSE IF t[1] = <<>> THEN Skipped
    ELSE IF ~is_before_or_equal(t[1], latest_) THEN Skipped
    ELSE RowFound(row, t[1])

\* One pass of the row loop (lines 442-513): whether it raised, and the
\* times it appended to found.
miclub_row(row, latest_) ==
    IF row.tw_text = None THEN Skipped
    ELSE RowTimed(row, label_hhmm(Strip(row.tw_text[1])), latest_)

\* sorted(set(found)): each text once, in str order
RECURSIVE Distinct(_)
Distinct(seq) ==
    IF seq = <<>> THEN <<>>
    ELSE IF \E k \in 1..(Len(seq) - 1) : seq[k] = seq[Len(seq)]
         THEN Distinct(SubSeq(seq, 1, Len(seq) - 1))
    ELSE Append(Distinct(SubSeq(seq, 1, Len(seq) - 1)), seq[Len(seq)])

SortTexts(texts) ==
    ValuesOf(SortedEntries(SeqOf([k \in 1..Len(texts) |->
                                    [key |-> <<texts[k]>>, val |-> texts[k]]])))
sorted_set(found_) == SortTexts(Distinct(found_))

\* lines 517-529
TimesToRecords(times, course_name, play_date_, final_url_) ==
    SeqOf([k \in 1..Len(times) |->
             TeeTime(course_name, play_date_, times[k], None, final_url_)])
build_results(found_, course_name, play_date_, final_url_) ==
    sorted_by_time(TimesToRecords(sorted_set(found_), course_name, play_date_, final_url_))

\* lines 355-371: the click that opens the timesheet
price_like_clicked(site_) == site_.price_like = "clicks"
cand_clicked(site_) == site_.cand = "clicks"

\* the row loop over the first rows of the site: [raised, found]; a row
\* that raises ends the call
AfterRow(sofar, step) ==
    IF step.raised THEN [raised |-> TRUE, found |-> <<>>]
    ELSE [raised |-> FALSE, found |-> sofar.found \o step.found]
NextRow(sofar, row, latest_) ==
    IF sofar.raised THEN sofar ELSE AfterRow(sofar, miclub_row(row, latest_))
RECURSIVE found_in(_, _)
found_in(rows, latest_) ==
    IF rows = <<>> THEN Skipped
    ELSE NextRow(found_in(SubSeq(rows, 1, Len(rows) - 1), latest_), rows[Len(rows)], latest_)

Returns(value_) == [raised |-> FALSE, value |-> value_]
Raises == [raised |-> TRUE, value |-> <<>>]

FoundToResult(f, course_name, play_date_, final_url_) ==
    IF f.raised THEN Raises
    ELSE Returns(build_results(f.found, course_name, play_date_, final_url_))

\* The whole call: what it returns, or that it raised.
scrape_miclub_public_calendar(site_, course_name, play_date_, latest_) ==
    IF ~site_.goto THEN Raises
    ELSE IF ~(price_like_clicked(site_) \/ cand_clicked(site_)) THEN Returns(<<>>)
    ELSE FoundToResult(found_in(SubSeq(site_.rows, 1, AtMost(Len(site_.rows), RowCap)),
                                latest_),
                       course_name, play_date_, site_.url)

\* the row loop of scrape_quick18_hamersley over the rows of the table
RECURSIVE matrix_rows(_, _, _, _, _)
matrix_rows(trs, col_18_, play_date_, n, latest_) ==
    IF trs = <<>> THEN <<>>
    ELSE matrix_rows(SubSeq(trs, 1, Len(trs) - 1), col_18_, play_date_, n, latest_)
            \o matrix_row(trs[Len(trs)], col_18_, play_date_, n, latest_)

MatrixFrom(html, loc, play_date_, n, latest_) ==
    IF loc.col_18 < 0 THEN <<>>
    ELSE dedupe_by_time(matrix_rows(html[loc.tbl], loc.col_18, play_date_, n, latest_))

\* The whole call on a page that loaded: the list it returns.
scrape_quick18_hamersley(html, play_date_, n, latest_) ==
    MatrixFrom(html, locate_col_18(html), play_date_, n, latest_)

----------------------------------------------------------------------------
(* The state of a part that is not running                                 *)

NoSite == [goto |-> FALSE, price_like |-> "absent", cand |-> "fails",
           elsewhere |-> "absent", url |-> <<>>, rows |-> <<>>]

NormIdle ==
    /\ hhmm = S("00:00")
    /\ clock = [hour |-> 0, minute |-> 0]
    /\ players_hint = None
    /\ ret = TRUE
MatrixIdle ==
    /\ doc = <<>>
    /\ tbl = 0
    /\ col_18 = -1
    /\ tr_i = 0
MiclubIdle ==
    /\ site = NoSite
    /\ clicked = FALSE
    /\ final_url = <<>>
    /\ tw_i = 0
    /\ found = <<>>
ExtractIdle ==
    /\ results = <<>>
    /\ from_row = <<>>
    /\ returned = <<>>
MainIdle ==
    /\ src_i = 0
    /\ all_results = <<>>
    /\ outcomes = <<>>
    /\ merged = <<>>
    /\ md = <<>>

\* the queries the program is run with: (MIN_PLAYERS, LATEST_TIME)
Queries ==
    {[min_players |-> 1, latest |-> "10:00"], [min_players |-> 2, latest |-> "09:00"],
     [min_players |-> 2, latest |-> "10:00"], [min_players |-> 4, latest |-> "10:00"]}

\* lines 569-571
QueryInit ==
    \E q \in Queries :
        /\ min_players = q.min_players
        /\ latest_time_str = S(q.latest)
        /\ latest = parse_hhmm_24(S(q.latest))

PlayDate == S("2026-11-07")

----------------------------------------------------------------------------
(* The helpers called on their own: every call draws its arguments         *)

MaxMinPlayers == 5

\* hours and minutes the times of the model are written from
Hours == {0, 7, 9, 10, 12, 23}
Minutes == {0, 5, 30, 59}
Clocks == [hour : Hours, minute : Minutes]

\* a valid 24-hour text of clock c: zero-padded, or as the 24-hour pattern
\* also accepts it, without the leading zero of the hour
Unpadded(c) == IntToStr(c.hour) \o <<":">> \o TwoDigits(c.minute)
ClockTexts(c) == {strftime_HM(c.hour, c.minute), Unpadded(c)}

Hints ==
    {None} \cup
    {Some(S(h)) : h \in
        {"", "players", "4 players", "1 to 4 players", "1 or 2 players",
         "2 or 3 players", "players up to 4", "up to 3 players", "1-4 players",
         "2 TO 6 Players", "up to 4 players, 2 carts",
         "7:00 AM Select 1 to 4 players", "1:00 AM Select 1 player"}}

NormInit ==
    /\ pc = "idle"
    /\ min_players = 1
    /\ latest_time_str = S("00:00")
    /\ latest = [hour |-> 0, minute |-> 0]
    /\ NormIdle
    /\ MatrixIdle
    /\ MiclubIdle
    /\ ExtractIdle
    /\ MainIdle

CallIsBeforeOrEqual ==
    \E c \in Clocks, l \in Clocks :
      \E t \in ClockTexts(c) :
        /\ pc = "idle"
        /\ pc' = "is_before_or_equal"
        /\ clock' = c
        /\ hhmm' = t
        /\ latest_time_str' = strftime_HM(l.hour, l.minute)
        /\ latest' = parse_hhmm_24(latest_time_str')
        /\ ret' = is_before_or_equal(t, latest')
        /\ UNCHANGED <<min_players, players_hint, matrixVars, miclubVars, extractVars,
                       mainVars>>

CallLooksLikePlayersOk ==
    \E h \in Hints, n \in 1..MaxMinPlayers :
        /\ pc = "idle"
        /\ pc' = "looks_like_players_ok"
        /\ players_hint' = h
        /\ min_players' = n
        /\ ret' = looks_like_players_ok(h, n)
        /\ UNCHANGED <<latest_time_str, latest, hhmm, clock, matrixVars, miclubVars,
                       extractVars, mainVars>>

\* the caller has the value; the next call draws fresh arguments
NormReturn ==
    /\ pc \in {"is_before_or_equal", "looks_like_players_ok"}
    /\ pc' = "idle"
    /\ min_players' = 1
    /\ latest_time_str' = S("00:00")
    /\ latest' = [hour |-> 0, minute |-> 0]
    /\ hhmm' = S("00:00")
    /\ clock' = [hour |-> 0, minute |-> 0]
    /\ players_hint' = None
    /\ ret' = TRUE
    /\ UNCHANGED <<matrixVars, miclubVars, extractVars, mainVars>>

NormNext == CallIsBeforeOrEqual \/ CallLooksLikePlayersOk \/ NormReturn

SpecNormalizer == NormInit /\ [][NormNext]_vars

----------------------------------------------------------------------------
(* The matrix extractor on its own                                         *)

MaxRows == 2

Td(text_) == [colspan |-> <<>>, text |-> S(text_), links |-> <<>>]
TdSpan(span_, text_, links_) == [colspan |-> S(span_), text |-> S(text_), links |-> links_]
TdA(text_, links_) == [colspan |-> <<>>, text |-> S(text_), links |-> links_]
A(text_, href_, dest_) == [text |-> S(text_), href |-> S(href_), dest |-> dest_]

\* what loading a link's destination returns during the run
NoLoad == [loads |-> FALSE, text |-> <<>>, selects |-> <<>>]
Page(text_) == [loads |-> TRUE, text |-> S(text_), selects |-> <<>>]
Dropdown(options_) ==
    [loads |-> TRUE, text |-> S("Book your tee time"),
     selects |-> <<[id |-> S("ddlPlayers"), name |-> <<>>, class |-> S("form-control"),
                    options |-> SeqOf([k \in 1..Len(options_) |-> S(options_[k])])]>>]
PlainPage == Page("Confirm your booking")
RangePage == Page("This tee time takes 1 to 4 players")
SlotPages ==
    {NoLoad, PlainPage, RangePage, Page("Only 1 player left"),
     Page("Up to 3 players"), Page("Up to 20 players"),
     Dropdown(<<"1 player", "2 players">>)}

Select9 == TdA("", <<A("Select", "/teetimes/book9", NoLoad)>>)

\* 18-hole Select with the hint "1 to 4 players" beside it
RowA(dest_) ==
    <<Td("7:00 AM"), Select9,
      TdA("1 to 4 players", <<A("Select", "/teetimes/book/0700", dest_)>>)>>
\* a Select in the 9-hole column only
RowB == <<Td("7:10 AM"), Select9, Td("")>>
\* the time of RowA again, with another hint and destination
RowC(dest_) ==
    <<Td("7:00 AM"), Td(""),
      TdA("1 or 2 players", <<A("Select", "/teetimes/book/0700b", dest_)>>)>>
\* after every modelled latest time
RowD == <<Td("11:30 AM"), Select9, TdA("", <<A("Select", "/teetimes/book/1130", PlainPage)>>)>>
\* fewer cells than the 18-hole column's index
RowE == <<TdA("7:10 AM", <<A("Select", "/teetimes/book/0710", PlainPage)>>)>>
\* one cell spanning the 9-hole and the 18-hole column
RowF ==
    <<Td("7:10 AM"),
      TdSpan("2", "", <<A("Details", "/info", NoLoad),
                        A("Select", "/teetimes/book/0710", PlainPage)>>)>>
\* a Select link without a destination
RowG == <<Td("7:20 AM"), Td(""), TdA("", <<A("Select", "", PlainPage)>>)>>
\* an early row whose own text says 1 player
RowH(dest_) ==
    <<Td("1:00 AM"), Td(""),
      TdA("1 player", <<A("select", "https://hamersley.quick18.com/book/0100", dest_)>>)>>
\* no Select at all
RowI == <<Td("7:30 AM"), Td("Sold out"), Td("Sold out")>>
\* a time dateutil rejects
RowJ == <<Td("13:00 PM"), Td(""), TdA("", <<A("Select", "/teetimes/book/1300", PlainPage)>>)>>
\* four cells: its Select is in the fourth column
RowK ==
    <<Td("7:40 AM"), Td("Back 9"), Td(""),
      TdA("", <<A("Select", "/teetimes/book/0740", PlainPage)>>)>>

MatrixRows ==
    {RowA(d) : d \in SlotPages}
        \cup {RowH(d) : d \in {NoLoad, PlainPage, Dropdown(<<"1 player", "2 players">>)}}
        \cup {RowC(NoLoad), RowB, RowD, RowE, RowF, RowG, RowI, RowJ, RowK}

HeaderPlain == <<Td("Time"), Td("9 Holes"), Td("18 Holes")>>
HeaderSpan == <<TdSpan("2", "Time", <<>>), Td("9 Holes"), Td("18 Holes")>>
Headers == {HeaderPlain, HeaderSpan}

RowSeqs(n) == UNION {[1..k -> MatrixRows] : k \in 0..n}

\* a page without tables; a page whose first table is not the matrix; a
\* table whose "18 holes" is split over two rows, so no row is the header; a
\* header whose "18" and "hole" are in different cells
OddDocs ==
    {<<>>,
     << <<<<Td("Weather"), Td("Sunny")>>>>, <<HeaderPlain, RowA(NoLoad)>> >>,
     << << <<Td("9 holes or 18")>>, <<Td("holes")>>, RowA(NoLoad) >> >>,
     << << <<Td("9 Holes"), Td("18"), Td("Holes")>>, RowA(NoLoad) >> >>}

Docs ==
    {<< <<h>> \o rows >> : h \in Headers, rows \in RowSeqs(MaxRows)} \cup OddDocs

MatrixInit ==
    /\ pc = "m_start"
    /\ QueryInit
    /\ NormIdle
    /\ MatrixIdle
    /\ MiclubIdle
    /\ ExtractIdle
    /\ MainIdle

\* lines 83-96: the page loads and page.content() is read
MatrixLoad ==
    /\ pc = "m_start"
    /\ \E d \in Docs : doc' = d
    /\ pc' = "m_locate"
    /\ UNCHANGED <<queryVars, normVars, tbl, col_18, tr_i, miclubVars, extractVars,
                   mainVars>>

\* lines 83-96: launch, goto or content() raises; nothing handles it here
MatrixLoadRaises ==
    /\ pc = "m_start"
    /\ pc' = "m_raised"
    /\ UNCHANGED <<queryVars, normVars, matrixVars, miclubVars, extractVars, mainVars>>

\* lines 98-147: the table, its header row and the 18-hole column
MatrixLocate ==
    /\ pc = "m_locate"
    /\ \E loc \in {locate_col_18(doc)} :
         IF loc.col_18 < 0
         THEN /\ pc' = "m_done"
              /\ returned' = results
              /\ UNCHANGED <<tbl, col_18, tr_i>>
         ELSE /\ pc' = "m_rows"
              /\ tbl' = loc.tbl
              /\ col_18' = loc.col_18
              /\ tr_i' = 1
              /\ UNCHANGED returned
    /\ UNCHANGED <<queryVars, normVars, doc, miclubVars, results, from_row, mainVars>>

\* lines 152-293: one row of the table
MatrixRowStep ==
    /\ pc = "m_rows"
    /\ tr_i <= Len(doc[tbl])
    /\ \E new \in {matrix_row(doc[tbl][tr_i], col_18, PlayDate, min_players, latest)} :
         /\ results' = results \o new
         /\ from_row' = from_row \o SeqOf([k \in 1..Len(new) |-> tr_i])
    /\ tr_i' = tr_i + 1
    /\ UNCHANGED <<pc, queryVars, normVars, doc, tbl, col_18, miclubVars, returned,
                   mainVars>>

\* lines 295-299: after the last row
MatrixReturn ==
    /\ pc = "m_rows"
    /\ tr_i > Len(doc[tbl])
    /\ returned' = dedupe_by_time(results)
    /\ pc' = "m_done"
    /\ UNCHANGED <<queryVars, normVars, matrixVars, miclubVars, results, from_row,
                   mainVars>>

MatrixNext ==
    MatrixLoad \/ MatrixLoadRaises \/ MatrixLocate \/ MatrixRowStep \/ MatrixReturn

SpecMatrix == MatrixInit /\ [][MatrixNext]_vars

----------------------------------------------------------------------------
(* main's configuration (lines 573-586) and str.format / str.replace        *)

miclub_courses ==
    <<[name |-> S("Collier Park Golf Course"),
       template |-> S("https://bookings.collierparkgolf.com.au/guests/bookings/ViewPublicCalendar.msp?mobile=true&selectedDate={date}")],
      [name |-> S("Marangaroo Golf Course"),
       template |-> S("https://marangaroo.miclub.com.au/guests/bookings/ViewPublicCalendar.msp?mobile=true&selectedDate={date}")],
      [name |-> S("Whaleback Golf Course"),
       template |-> S("https://www.whalebackgolfcourse.com.au/guests/bookings/ViewPublicCalendar.msp?booking_resource_id=3000000&mobile=true&selectedDate={date}")]>>

\* template.format(date=d) for a template with one {date} field
DateField == S("{date}")
FieldAt(template) == CHOOSE i \in 1..Len(template) : MatchAt(template, i, DateField)
FormatAt(template, i, d) ==
    SubSeq(template, 1, i - 1) \o d \o SubSeq(template, i + Len(DateField), Len(template))
Format(template, d) == FormatAt(template, FieldAt(template), d)

\* s.replace("-", "")
IsNotDash(c) == c # "-"
RemoveDashes(s) == SelectSeq(s, IsNotDash)

----------------------------------------------------------------------------
(* The interactive extractor on its own, run for the first MiClub course   *)

MaxTimeRows == 2

Act(class_, aria_, disabled_, href_, onclick_, text_) ==
    [class |-> S(class_), aria_disabled |-> S(aria_), disabled |-> disabled_,
     href |-> S(href_), onclick |-> S(onclick_), text |-> S(text_)]
BookLink == Act("btn", "", FALSE, "/guests/bookings/MakeBooking.msp?slot=1", "", "")
BookButton == Act("btn btn-primary", "", FALSE, "", "", " Book ")
OnclickIcon == Act("icon", "false", FALSE, " ", "openSlot(1)", "")
DisabledLink == Act("btn disabled", "", FALSE, "/guests/bookings/MakeBooking.msp?slot=2", "", "Book")
AriaDisabledLink == Act("btn", "True", FALSE, "/guests/bookings/MakeBooking.msp?slot=3", "", "Book")
DisabledButton == Act("btn", "", TRUE, "", "", "Book")
InfoButton == Act("btn", "", FALSE, "", "", "Info")

MiRow(tw_text_, attached_, text_, class_, actions_) ==
    [tw_text |-> tw_text_, attached |-> attached_, text |-> S(text_),
     class |-> S(class_), actions |-> actions_]
Label(text_) == Some(S(text_))

\* a free slot with a booking link
RowFree == MiRow(Label(" 7:00 AM "), TRUE, "7:00 AM Available 4 spots", "row", <<BookLink>>)
\* 24-hour labels, the first without a leading zero
Row0705 == MiRow(Label("7:05"), TRUE, "7:05 Available", "row", <<InfoButton, BookLink>>)
Row1000 == MiRow(Label("10:00"), TRUE, "10:00 Available", "row", <<BookLink>>)
Row0930 == MiRow(Label("9:30"), TRUE, "9:30 Available", "row", <<OnclickIcon>>)
\* the time of Row0705 again, on the 12-hour clock
Row0705AM == MiRow(Label("7:05 AM"), TRUE, "7:05 AM Available", "row", <<BookButton>>)
\* both signals in one block, and an enabled link
RowBoth == MiRow(Label("7:30 AM"), TRUE, "7:30 AM Available Taken", "row", <<BookLink>>)
RowBooked == MiRow(Label("7:10 AM"), TRUE, "7:10 AM Booked", "row", <<BookLink>>)
RowBadClass == MiRow(Label("7:15 AM"), TRUE, "7:15 AM Available", "row unavailable", <<BookLink>>)
\* every action disabled in one of the three ways, or without a destination
RowDisabled ==
    MiRow(Label("7:20 AM"), TRUE, "7:20 AM Available", "row",
          <<DisabledLink, AriaDisabledLink, DisabledButton, InfoButton>>)
\* the label's inner_text() raises
RowNoLabel == MiRow(None, TRUE, "", "row", <<BookLink>>)
\* the page goes away after the label was read
RowDetached == MiRow(Label("7:25 AM"), FALSE, "", "", <<>>)
\* after every modelled latest time
RowLate == MiRow(Label("11:30 AM"), TRUE, "11:30 AM Available", "row", <<BookLink>>)
\* no word about availability, and a Book button
RowSilent == MiRow(Label("7:40 AM"), TRUE, "7:40 AM", "row", <<BookButton>>)
RowNoTime == MiRow(Label("Morning"), TRUE, "Morning Available", "row", <<BookLink>>)
\* a time dateutil rejects
RowBadTime == MiRow(Label("13:00 PM"), TRUE, "13:00 PM Available", "row", <<BookLink>>)

TimeRows ==
    {RowFree, Row0705, Row1000, Row0930, Row0705AM, RowBoth, RowBooked, RowBadClass,
     RowDisabled, RowNoLabel, RowDetached, RowLate, RowSilent, RowNoTime, RowBadTime}

TimeRowSeqs(n) == UNION {[1..k -> TimeRows] : k \in 0..n}

TimesheetUrl(course_) ==
    S("https://miclub.example/guests/bookings/ViewPublicTimesheet.msp?course=")
        \o SubSeq(course_, 1, 1)

SiteOf(goto_, price_like_, cand_, url_, rows_) ==
    [goto |-> goto_, price_like |-> price_like_, cand |-> cand_, elsewhere |-> "absent",
     url |-> url_, rows |-> rows_ \o <<>>]

\* the same site with a link outside every table that a click would follow
WithLinkElsewhere(site_, url_, rows_) ==
    [site_ EXCEPT !.elsewhere = "clicks", !.url = url_, !.rows = rows_]

\* the click opens the timesheet: by the price, or by the first table link
\* when there is no price or the click on it fails
OpeningClicks == {<<"clicks", "fails">>, <<"absent", "clicks">>, <<"fails", "clicks">>}
DeadClicks == {<<"absent", "fails">>, <<"fails", "fails">>}

SitesOf(course_, rowseqs) ==
    {NoSite}
        \cup {SiteOf(TRUE, c[1], c[2], <<>>, <<>>) : c \in DeadClicks}
        \cup {WithLinkElsewhere(SiteOf(TRUE, c[1], c[2], <<>>, <<>>),
                                 TimesheetUrl(course_), <<RowFree>>) : c \in DeadClicks}
        \cup {SiteOf(TRUE, c[1], c[2], TimesheetUrl(course_), rs) :
                c \in OpeningClicks, rs \in rowseqs}

Sites == SitesOf(miclub_courses[1].name, TimeRowSeqs(MaxTimeRows))

MiInit ==
    /\ pc = "i_start"
    /\ QueryInit
    /\ NormIdle
    /\ MatrixIdle
    /\ MiclubIdle
    /\ ExtractIdle
    /\ MainIdle

\* lines 310-319: the page loads
MiGoto ==
    /\ pc = "i_start"
    /\ \E s \in Sites : s.goto /\ site' = s
    /\ final_url' = Format(miclub_courses[1].template, PlayDate)
    /\ pc' = "i_price"
    /\ UNCHANGED <<queryVars, normVars, matrixVars, clicked, tw_i, found, extractVars,
                   mainVars>>

\* lines 315-318: launch or goto raises; nothing handles it here
MiGotoRaises ==
    /\ pc = "i_start"
    /\ \E s \in Sites : ~s.goto /\ site' = s
    /\ pc' = "i_raised"
    /\ UNCHANGED <<queryVars, normVars, matrixVars, clicked, final_url, tw_i, found,
                   extractVars, mainVars>>

\* lines 355-362
MiClickPrice ==
    /\ pc = "i_price"
    /\ clicked' = price_like_clicked(site)
    /\ pc' = IF clicked' THEN "i_opened" ELSE "i_cand"
    /\ UNCHANGED <<queryVars, normVars, matrixVars, site, final_url, tw_i, found,
                   extractVars, mainVars>>

\* lines 364-375
MiClickCand ==
    /\ pc = "i_cand"
    /\ clicked' = cand_clicked(site)
    /\ IF clicked'
       THEN pc' = "i_opened" /\ UNCHANGED returned
       ELSE pc' = "i_done" /\ returned' = results
    /\ UNCHANGED <<queryVars, normVars, matrixVars, site, final_url, tw_i, found,
                   results, from_row, mainVars>>

\* lines 377-440
MiOpened ==
    /\ pc = "i_opened"
    /\ final_url' = site.url
    /\ found' = <<>>
    /\ tw_i' = 1
    /\ pc' = "i_rows"
    /\ UNCHANGED <<queryVars, normVars, matrixVars, site, clicked, extractVars, mainVars>>

\* lines 442-513: one .time-wrapper
MiRowStep ==
    /\ pc = "i_rows"
    /\ tw_i <= AtMost(Len(site.rows), RowCap)
    /\ \E step \in {miclub_row(site.rows[tw_i], latest)} :
         IF step.raised
         THEN /\ pc' = "i_raised"
              /\ UNCHANGED <<tw_i, found, from_row>>
         ELSE /\ pc' = pc
              /\ found' = found \o step.found
              /\ from_row' = from_row \o SeqOf([k \in 1..Len(step.found) |-> tw_i])
              /\ tw_i' = tw_i + 1
    /\ UNCHANGED <<queryVars, normVars, matrixVars, site, clicked, final_url, results,
                   returned, mainVars>>

\* lines 515-529
MiBuild ==
    /\ pc = "i_rows"
    /\ tw_i > AtMost(Len(site.rows), RowCap)
    /\ results' = TimesToRecords(sorted_set(found), miclub_courses[1].name, PlayDate,
                                 final_url)
    /\ returned' = sorted_by_time(results')
    /\ pc' = "i_done"
    /\ UNCHANGED <<queryVars, normVars, matrixVars, miclubVars, from_row, mainVars>>

MiNext ==
    \/ MiGoto
    \/ MiGotoRaises
    \/ MiClickPrice
    \/ MiClickCand
    \/ MiOpened
    \/ MiRowStep
    \/ MiBuild

SpecInteractive == MiInit /\ [][MiNext]_vars

----------------------------------------------------------------------------
(* render_markdown and main.  The report is kept as its lines: the text is *)
(* "\n".join of them.                                                      *)

\* lines 534-537 and 541-548
header_lines(play_date_, n, latest_time) ==
    <<S("# Tee time lookup"),
      <<>>,
      S("- Date: **") \o play_date_ \o S("**"),
      S("- Filter: **") \o IntToStr(n) \o S("+ players**, **before ") \o latest_time
          \o S("**"),
      S("- Tip: right-click a link (or Ctrl/Cmd-click) to open it in a new tab."),
      <<>> >>

\* line 538; the text ends with a newline, so an empty line follows
nothing_matched ==
    <<S("Nothing matched. Could be full, or one of the booking pages changed."), <<>> >>

\* line 557
hint_text(hint_) ==
    IF hint_ = None THEN <<>>
    ELSE IF hint_[1] = <<>> THEN <<>>
    ELSE S(" (") \o hint_[1] \o S(")")

\* line 558
item_line(r) ==
    S("- **") \o r.tee_time \o S("**") \o hint_text(r.players_hint)
        \o S("  [open booking page](") \o r.booking_url \o S(")")

\* lines 550-552: the keys of by_course in the order they were first set,
\* and the records of one course in the order of the list
CoursesIn(rs) == Distinct(SeqOf([k \in 1..Len(rs) |-> rs[k].course]))
ItemsOf(rs, course_) == SeqOf([k \in 1..Len(rs) |-> IF rs[k].course = course_
                                                    THEN <<item_line(rs[k])>>
                                                    ELSE <<>>])

\* lines 554-559 for one course
course_section(rs, course_) ==
    <<S("## ") \o course_, <<>> >> \o Flatten(ItemsOf(rs, course_)) \o << <<>> >>

SectionsOf(rs, courses) ==
    Flatten(SeqOf([k \in 1..Len(courses) |-> course_section(rs, courses[k])]))

\* lines 531-561
render_markdown(all_results_, play_date_, n, latest_time) ==
    IF all_results_ = <<>>
    THEN header_lines(play_date_, n, latest_time) \o nothing_matched
    ELSE header_lines(play_date_, n, latest_time)
            \o SectionsOf(all_results_, CoursesIn(all_results_))

\* lines 594-602 and 607-616: the record appended for a source that raised
placeholder(course_, play_date_, e, url_) ==
    TeeTime(course_, play_date_, <<>>, Some(S("ERROR: ") \o e), url_)

\* line 614
hamersley_url(play_date_) ==
    S("https://hamersley.quick18.com/teetimes/searchmatrix?teedate=")
        \o RemoveDashes(play_date_)

source_records_Dropped(out, ph) == out.value

\* lines 591-603 and 606-617: what one source adds to all_results, from
\* what its call did
source_records(out, ph) == IF out.raised THEN <<ph>> ELSE out.value

Outcome(course_, out) == [course |-> course_, raised |-> out.raised, value |-> out.value]

\* lines 619-620
IsGood(r) == r.tee_time # <<>>
IsBad(r) == r.tee_time = <<>>
good_of(rs) == SelectSeq(rs, IsGood)
bad_of(rs) == SelectSeq(rs, IsBad)

\* line 622
good_sorted_of(good) ==
    ValuesOf(SortedEntries(SeqOf([k \in 1..Len(good) |->
        [key |-> <<good[k].course, good[k].tee_time>>, val |-> good[k]]])))

\* line 623: good_sorted + bad
merged_of(rs) == good_sorted_of(good_of(rs)) \o bad_of(rs)

\* the text of the exception a source raised
ErrorTexts == {S("Timeout 60000ms exceeded."), <<>>}

\* what the sites show during a run of main
MainRowSeqs ==
    {<<RowFree>>, <<Row0705, Row0705AM>>, <<Row1000, Row0705>>, <<RowFree, RowDetached>>,
     <<Row0930, RowLate>>}
MainSites(course_) ==
    {NoSite, SiteOf(TRUE, "absent", "fails", <<>>, <<>>)}
        \cup {SiteOf(TRUE, "clicks", "fails", TimesheetUrl(course_), rs) :
                rs \in MainRowSeqs}

Row0930AM ==
    <<Td("9:30 AM"), Td(""), TdA("", <<A("Select", "/teetimes/book/0930", PlainPage)>>)>>
MainDocs ==
    {<<>>,
     << <<HeaderPlain, RowA(RangePage), RowB, RowD>> >>,
     << <<HeaderPlain, RowA(PlainPage), RowC(NoLoad)>> >>,
     << <<HeaderSpan, Row0930AM, RowA(NoLoad)>> >>}

Init ==
    /\ pc = "main_miclub"
    /\ QueryInit
    /\ NormIdle
    /\ MatrixIdle
    /\ MiclubIdle
    /\ ExtractIdle
    /\ src_i = 1
    /\ all_results = <<>>
    /\ outcomes = <<>>
    /\ merged = <<>>
    /\ md = <<>>

\* lines 591-603: one MiClub course
MainMiclub ==
    /\ pc = "main_miclub"
    /\ \E c \in {miclub_courses[src_i]} :
       \E s \in MainSites(c.name), e \in ErrorTexts :
       \E out \in {scrape_miclub_public_calendar(s, c.name, PlayDate, latest)} :
         /\ site' = s
         /\ all_results' = all_results \o
              source_records(out, placeholder(c.name, PlayDate, e,
                                              Format(c.template, PlayDate)))
         /\ outcomes' = Append(outcomes, Outcome(c.name, out))
    /\ src_i' = src_i + 1
    /\ pc' = IF src_i = Len(miclub_courses) THEN "main_hamersley" ELSE pc
    /\ UNCHANGED <<queryVars, normVars, matrixVars, clicked, final_url, tw_i, found,
                   extractVars, merged, md>>

\* lines 606-607: the matrix page loads and the call returns
MainHamersley ==
    /\ pc = "main_hamersley"
    /\ \E d \in MainDocs :
       \E out \in {Returns(scrape_quick18_hamersley(d, PlayDate, min_players, latest))} :
         /\ doc' = d
         /\ all_results' = all_results \o
              source_records(out, placeholder(HamersleyCourse, PlayDate, <<>>,
                                              hamersley_url(PlayDate)))
         /\ outcomes' = Append(outcomes, Outcome(HamersleyCourse, out))
    /\ src_i' = src_i + 1
    /\ pc' = "main_report"
    /\ UNCHANGED <<queryVars, normVars, tbl, col_18, tr_i, miclubVars, extractVars,
                   merged, md>>

\* lines 608-617: the call raises (the page does not load)
MainHamersleyRaises ==
    /\ pc = "main_hamersley"
    /\ \E e \in ErrorTexts :
         /\ all_results' = all_results \o
              source_records(Raises, placeholder(HamersleyCourse, PlayDate, e,
                                                 hamersley_url(PlayDate)))
         /\ outcomes' = Append(outcomes, Outcome(HamersleyCourse, Raises))
    /\ src_i' = src_i + 1
    /\ pc' = "main_report"
    /\ UNCHANGED <<queryVars, normVars, matrixVars, miclubVars, extractVars, merged, md>>

\* lines 619-626
MainReport ==
    /\ pc = "main_report"
    /\ merged' = merged_of(all_results)
    /\ md' = render_markdown(merged', PlayDate, min_players, latest_time_str)
    /\ pc' = "main_done"
    /\ UNCHANGED <<queryVars, normVars, matrixVars, miclubVars, extractVars, src_i,
                   all_results, outcomes>>

Next == MainMiclub \/ MainHamersley \/ MainHamersleyRaises \/ MainReport

Spec == Init /\ [][Next]_vars

----------------------------------------------------------------------------
(* Claims about the helpers                                                *)

MinuteOfDay(c) == c.hour * 60 + c.minute

\* C9: for valid 24-hour times, is_before_or_equal(t1, t2) is true exactly
\* when t1 is at or before t2 as a time of day: true for t1 <= t2 (equal
\* values pass), false for t1 after t2.
C9_IsBeforeOrEqualIsTimeOrder ==
    pc = "is_before_or_equal" =>
        (ret <=> MinuteOfDay(clock) <= MinuteOfDay(latest))

\* a call the hour alone does not decide: same hour, later minute
C9_Witness ==
    /\ pc = "is_before_or_equal"
    /\ clock.hour = latest.hour
    /\ clock.minute > latest.minute
    /\ hhmm = S("7:30")
    /\ ~ret

\* The specification's satisfiesPlayerCount, read off its text.  Two numbers
\* joined by connective w: a number, w, a number, with optional blanks.
JoinedAt(s, i, w) ==
    /\ IsDigit(Ch(s, i))
    /\ (i = 1 \/ ~IsDigit(Ch(s, i - 1)))
    /\ MatchAt(s, SpacesEnd(s, DigitsEnd(s, i)), w)
    /\ IsDigit(Ch(s, SpacesEnd(s, SpacesEnd(s, DigitsEnd(s, i)) + Len(w))))

HasJoined(s, w) == \E i \in 1..Len(s) : JoinedAt(s, i, w)

FirstJoined(s, w) == FirstTrue(SeqOf([i \in 1..Len(s) |-> JoinedAt(s, i, w)]))

\* the second number of the first "a w b" of s
SecondOfJoined(s, w) ==
    LET k == SpacesEnd(s, SpacesEnd(s, DigitsEnd(s, FirstJoined(s, w))) + Len(w))
    IN  NumAt(s, k)

FirstOfJoined(s, w) ==
    NumAt(s, FirstJoined(s, w))

satisfiesPlayerCount(hint, n) ==
    IF hint = None \/ hint = Some(<<>>) THEN TRUE
    ELSE LET s == Lower(hint[1])
         IN  IF FindallNums(s) = <<>> THEN TRUE
             ELSE IF HasJoined(s, S("to")) THEN SecondOfJoined(s, S("to")) >= n
             ELSE IF HasJoined(s, S("-")) THEN SecondOfJoined(s, S("-")) >= n
             ELSE IF HasJoined(s, S("or"))
                  THEN (FirstOfJoined(s, S("or")) >= n \/ SecondOfJoined(s, S("or")) >= n)
             ELSE MaxOf(FindallNums(s)) >= n

\* C8: looks_like_players_ok agrees with the specification's
\* satisfiesPlayerCount for every hint and every minPlayers >= 1.
C8_AgreesWithSatisfiesPlayerCount ==
    pc = "looks_like_players_ok" =>
        ret = satisfiesPlayerCount(players_hint, min_players)

\* C8, the four worked examples and the absent hint, which the code does meet
C8_Examples ==
    pc = "looks_like_players_ok" =>
        /\ (players_hint = Some(S("1 to 4 players")) => (ret <=> min_players <= 4))
        /\ (players_hint = Some(S("2 or 3 players")) => (ret <=> min_players <= 3))
        /\ (players_hint \in {None, Some(<<>>), Some(S("players"))} => ret)

----------------------------------------------------------------------------
(* Claims about the matrix extractor                                       *)

\* the number of columns the first j cells of a row cover
RECURSIVE SpanSum(_, _)
SpanSum(tr, j) == IF j = 0 THEN 0 ELSE SpanSum(tr, j - 1) + ColspanOf(tr[j])

\* the cells of the row that cover the 0-based column c: one, or none
Covering(tr, c) ==
    {j \in 1..Len(tr) : SpanSum(tr, j - 1) <= c /\ c < SpanSum(tr, j)}

HasSelectWithDestination(cell) ==
    \E k \in 1..Len(cell.links) :
        Contains(Lower(cell.links[k].text), S("select")) /\ cell.links[k].href # <<>>

TimesOf(rs) == SeqOf([k \in 1..Len(rs) |-> rs[k].tee_time])

\* scenario A with a destination that does not contradict the row's hint
ScenarioADests == SlotPages \ {Page("Only 1 player left")}
ScenarioA == {<< <<HeaderPlain, RowA(d), RowB>> >> : d \in ScenarioADests}

\* C6: a matrix row is emitted only if the cell that covers the resolved
\* 18-hole column, each cell counted across its colspan, holds a Select link
\* with a non-empty destination: a row with a Select only in another column,
\* or too short to reach the column, gives no record.  In scenario A (7:00
\* AM with an 18-hole Select and the hint "1 to 4 players", 7:10 AM with a
\* Select for 9 holes only, min_players 2, latest 09:00) the extractor
\* returns one record, at 07:00.
C6_EmittedOnlyWithSelectInColumn ==
    /\ \A k \in 1..Len(results) :
         \E j \in Covering(doc[tbl][from_row[k]], col_18) :
            HasSelectWithDestination(doc[tbl][from_row[k]][j])
    /\ (/\ pc = "m_done"
        /\ doc \in ScenarioA
        /\ min_players = 2
        /\ latest = [hour |-> 9, minute |-> 0])
           => TimesOf(returned) = <<S("07:00")>>

\* scenario A has run to its end, with the range read from the slot page
C6_Witness ==
    /\ pc = "m_done"
    /\ doc = << <<HeaderPlain, RowA(RangePage), RowB>> >>
    /\ min_players = 2
    /\ latest = [hour |-> 9, minute |-> 0]
    /\ col_18 = 2
    /\ from_row = <<2>>
    /\ Len(returned) = 1
    /\ returned[1].tee_time = S("07:00")
    /\ returned[1].players_hint = Some(S("1 to 4 players"))

\* C10: every record the matrix extractor emits with a player hint
\* satisfies satisfiesPlayerCount(hint, min_players), whatever the row text,
\* the destination page and the outcome of the secondary fetch.
C10_EmittedHintsSatisfyPlayerCount ==
    \A k \in 1..Len(results) :
        results[k].players_hint # None
            => satisfiesPlayerCount(results[k].players_hint, min_players)

----------------------------------------------------------------------------
(* Claims about the interactive extractor                                  *)

\* the signals of a block's text, as whole words in any case
available_signal == {<<S("available")>>}
taken_signals == {<<S("taken")>>, <<S("booked")>>, <<S("unavailable")>>}
HasSignal(low, signals) == \E pat \in signals : PhraseIn(low, pat)
BlockOf(k) == Lower(site.rows[from_row[k]].text)

\* C7: in the interactive extractor a time is emitted only when its block
\* has an explicit "available" signal and no taken/booked/unavailable
\* signal; a block with both "Available" and "Taken" is excluded even when
\* it holds an enabled bookable action.
C7_EmittedOnlyWhenAvailableAndNotTaken ==
    pc \in {"i_rows", "i_done"} =>
        \A k \in 1..Len(found) :
            /\ HasSignal(BlockOf(k), available_signal)
            /\ ~HasSignal(BlockOf(k), taken_signals)

\* the part of C7 the code does keep: a block that says booked or
\* unavailable is never emitted
C7_BookedOrUnavailableExcluded ==
    pc \in {"i_rows", "i_done"} =>
        \A k \in 1..Len(found) :
            ~HasSignal(BlockOf(k), {<<S("booked")>>, <<S("unavailable")>>})

----------------------------------------------------------------------------
(* Claims about main and render_markdown                                   *)

\* the configured sources, in the order main runs them
Sources ==
    SeqOf([k \in 1..Len(miclub_courses) |-> miclub_courses[k].name]) \o <<HamersleyCourse>>

IsReal(r) == r.tee_time # <<>>
RealOf(rs, course_) == {k \in 1..Len(rs) : rs[k].course = course_ /\ IsReal(rs[k])}
PlaceholdersOf(rs, course_) ==
    {k \in 1..Len(rs) : rs[k].course = course_ /\ ~IsReal(rs[k])}
Occurrences(rs, r) == Cardinality({k \in 1..Len(rs) : rs[k] = r})
TimeOfDay(r) == MinuteOfDay(parse_hhmm_24(r.tee_time))

\* C1: whatever each source does (returns records, or raises at any point),
\* main invokes every configured source; for each source that raised the
\* merged output has no real slot of it and exactly one placeholder, with
\* empty time and a non-empty diagnostic hint; the records returned by
\* every source that did not raise are all present.
C1_EverySourceInvokedAndFailuresIsolated ==
    pc = "main_done" =>
        /\ Len(outcomes) = Len(Sources)
        /\ \A i \in 1..Len(Sources) :
             /\ outcomes[i].course = Sources[i]
             /\ IF outcomes[i].raised
                THEN /\ RealOf(merged, Sources[i]) = {}
                     /\ Cardinality(PlaceholdersOf(merged, Sources[i])) = 1
                     /\ \A k \in PlaceholdersOf(merged, Sources[i]) :
                          /\ merged[k].players_hint # None
                          /\ merged[k].players_hint[1] # <<>>
                ELSE \A j \in 1..Len(outcomes[i].value) :
                        Occurrences(merged, outcomes[i].value[j])
                            >= Occurrences(outcomes[i].value, outcomes[i].value[j])

\* the last MiClub course raised in the middle of its rows, the first course
\* and the matrix returned records, and the report is written
C1_Witness ==
    /\ pc = "main_done"
    /\ outcomes[3].raised
    /\ site.rows = <<RowFree, RowDetached>>
    /\ outcomes[1].value # <<>>
    /\ outcomes[4].value # <<>>
    /\ RealOf(merged, Sources[1]) # {}

NoticeLine == nothing_matched[1]
IsSectionLine(line) == StartsWith(line, S("## "))

\* C2: whenever the merged list has no real slot once the placeholders are
\* removed (also when sources failed and only placeholders remain), the
\* report is the single fixed "Nothing matched" notice with no per-source
\* sections.
C2_NothingMatchedWithoutRealSlot ==
    (pc = "main_done" /\ \A k \in 1..Len(merged) : ~IsReal(merged[k])) =>
        /\ Cardinality({k \in 1..Len(md) : md[k] = NoticeLine}) = 1
        /\ \A k \in 1..Len(md) : ~IsSectionLine(md[k])

\* the part of C2 the code does keep: a list with no record at all gives
\* the notice and no section
C2_EmptyListGivesNotice ==
    (pc = "main_done" /\ merged = <<>>) =>
        md = header_lines(PlayDate, min_players, latest_time_str) \o <<NoticeLine, <<>> >>

\* C3: in every output of the aggregator, every record with a non-empty
\* time, from the matrix extractor or the interactive extractor, has a time
\* of day at or before the caller's latest time.
C3_RealRecordsNotAfterLatest ==
    /\ \A k \in 1..Len(all_results) :
         IsReal(all_results[k]) => TimeOfDay(all_results[k]) <= MinuteOfDay(latest)
    /\ \A k \in 1..Len(merged) :
         IsReal(merged[k]) => TimeOfDay(merged[k]) <= MinuteOfDay(latest)

\* both extractors met a slot after the latest time and one before it: the
\* matrix had 11:30 AM under 7:00 AM, the last MiClub course 11:30 AM under
\* 9:30, and the latest time is 10:00
C3_Witness ==
    /\ pc = "main_done"
    /\ latest = [hour |-> 10, minute |-> 0]
    /\ doc = << <<HeaderPlain, RowA(RangePage), RowB, RowD>> >>
    /\ site.rows = <<Row0930, RowLate>>
    /\ RealOf(merged, HamersleyCourse) # {}
    /\ \E k \in RealOf(merged, Sources[3]) : merged[k].tee_time = S("9:30")

\* C4: no two real records of the merged output share (source, date,
\* time of day).
C4_OneRecordPerSourceDateTime ==
    \A i \in 1..Len(merged), j \in 1..Len(merged) :
        (/\ i < j
         /\ IsReal(merged[i])
         /\ IsReal(merged[j])
         /\ merged[i].course = merged[j].course
         /\ merged[i].play_date = merged[j].play_date)
            => TimeOfDay(merged[i]) # TimeOfDay(merged[j])

\* the part of C4 the code does keep: the matrix extractor returns one record
\* per time, the last one it appended for that time
C4_MatrixKeepsLastCandidate ==
    pc = "m_done" =>
        \A i \in 1..Len(returned) :
            /\ \A j \in 1..Len(returned) :
                 returned[i].tee_time = returned[j].tee_time => i = j
            /\ \E k \in 1..Len(results) :
                 /\ results[k] = returned[i]
                 /\ \A l \in (k + 1)..Len(results) :
                      results[l].tee_time # returned[i].tee_time

\* C5: the merged list is ordered: the real records first, by source name
\* and within one source by ascending time of day, whatever text the
\* extractor kept for the time; every placeholder after every real record.
C5_MergedIsOrdered ==
    \A i \in 1..Len(merged), j \in 1..Len(merged) :
        i < j =>
            /\ ~IsReal(merged[i]) => ~IsReal(merged[j])
            /\ (IsReal(merged[i]) /\ IsReal(merged[j])) =>
                 \/ StrLess(merged[i].course, merged[j].course)
                 \/ /\ merged[i].course = merged[j].course
                    /\ TimeOfDay(merged[i]) <= TimeOfDay(merged[j])

\* the part of C5 the code does keep: placeholders after real records, and
\* real records by source name
C5_PlaceholdersLastAndSourcesInOrder ==
    \A i \in 1..Len(merged), j \in 1..Len(merged) :
        i < j =>
            /\ ~IsReal(merged[i]) => ~IsReal(merged[j])
            /\ (IsReal(merged[i]) /\ IsReal(merged[j])) =>
                 ~StrLess(merged[j].course, merged[i].course)

----------------------------------------------------------------------------
(* Claims about failures inside the extractors                             *)

\* the row's time passes the filters that come before the secondary fetch
TimePasses(t24, latest_) == t24 # None /\ is_before_or_equal(t24[1], latest_)
ReachesFetch(tr, link, latest_) ==
    /\ link # <<>>
    /\ link[1].href # <<>>
    /\ Contains(Lower(RowText(tr)), S("select"))
    /\ TimePasses(row_hhmm(RowText(tr)), latest_)
\* the Select link of the row's 18-hole cell leads to a page that fails to load
LinkFails(link) == link # <<>> /\ ~link[1].dest.loads
\* the row reaches the secondary fetch and the fetch fails
FetchFailsAt(tr, link, latest_) == LinkFails(link) /\ ReachesFetch(tr, link, latest_)
FetchFails(tr) == FetchFailsAt(tr, row_select_link(expand_cells(tr), col_18), latest)

\* the records appended for row i, in order
AppendedFor(i) ==
    SeqOf([k \in 1..Cardinality({j \in 1..Len(results) : from_row[j] = i}) |->
             results[CHOOSE j \in 1..Len(results) :
                        /\ from_row[j] = i
                        /\ Cardinality({l \in 1..j : from_row[l] = i}) = k]])

\* C11: in the matrix extractor a failed secondary fetch neither aborts the
\* extraction nor drops the row: the row is emitted, the rows after it are
\* still processed, and on a page with a failed fetch what every row
\* appends is what that row appends on its own.
C11_FailedFetchKeepsRowAndOthers ==
    (pc \in {"m_rows", "m_done"} /\ tbl > 0) =>
        /\ \A i \in 1..(tr_i - 1) :
             FetchFails(doc[tbl][i]) =>
                 /\ Len(AppendedFor(i)) = 1
                 /\ AppendedFor(i)[1].tee_time = row_hhmm(RowText(doc[tbl][i]))[1]
                 /\ pc = "m_done" =>
                      /\ \E k \in 1..Len(returned) :
                           returned[k].tee_time = AppendedFor(i)[1].tee_time
                      /\ \A j \in 1..Len(doc[tbl]) :
                           AppendedFor(j) = matrix_row(doc[tbl][j], col_18, PlayDate,
                                                       min_players, latest)
        /\ pc = "m_done" => tr_i = Len(doc[tbl]) + 1

\* the fetch of the first row's slot page failed, and that row and the row
\* after it are both in the list returned
C11_Witness ==
    /\ pc = "m_done"
    /\ min_players = 2
    /\ doc = << <<HeaderPlain, RowA(NoLoad), RowH(PlainPage)>> >>
    /\ from_row = <<2, 3>>
    /\ TimesOf(returned) = <<S("01:00"), S("07:00")>>

\* C12: the interactive extractor tries its navigation triggers in priority
\* order (a price-like text, then a table-embedded action element, then any
\* action element), the next one only when the one before was absent or its
\* click failed; it ends with an empty result and no error only when no
\* trigger succeeds.
C12_EndsEmptyOnlyWhenNoTriggerSucceeds ==
    (pc = "i_done" /\ ~clicked) =>
        /\ site.price_like # "clicks"
        /\ site.cand # "clicks"
        /\ site.elsewhere # "clicks"

\* the part of C12 the code does keep: the table trigger is tried only after
\* the price trigger was absent or failed, the rows are read only after a
\* click that succeeded, and without one the call returns an empty list and
\* raises nothing
C12_PriceThenTableAndNoRowsWithoutClick ==
    /\ pc = "i_cand" => site.price_like # "clicks"
    /\ pc \in {"i_opened", "i_rows"} =>
         /\ clicked
         /\ site.price_like = "clicks" \/ site.cand = "clicks"
    /\ (pc = "i_done" /\ ~clicked) =>
         /\ returned = <<>>
         /\ found = <<>>
         /\ tw_i = 0
    /\ pc = "i_raised" => (~site.goto \/ clicked)

\* C13: in the interactive extractor a failure at any single step (the
\* initial load, a navigation trigger, resolving the timesheet, reading one
\* row's text, class or actions) never aborts the extraction: the call
\* returns normally and never raises to the aggregator.
C13_NeverRaisesToAggregator == pc # "i_raised"

\* the part of C13 the code does keep: a label whose text cannot be read
\* gives no record for that row only, and every row is still visited
C13_UnreadableLabelSkipsOnlyItsRow ==
    /\ pc \in {"i_rows", "i_done"} =>
         \A i \in 1..(tw_i - 1) :
             site.rows[i].tw_text = None => \A k \in 1..Len(from_row) : from_row[k] # i
    /\ (pc = "i_done" /\ clicked) => tw_i = Len(site.rows) + 1

====
